---- MODULE Spec2Model ----
(***************************************************************************)
(* State-machine model of accelerated-backup/accelerated_io.go: the        *)
(* parallel block-device transfer engine (read mode: device -> stdout,     *)
(* write mode: stdin -> device).                                           *)
(*                                                                         *)
(* Every goroutine is a process of the model; an action is the code a      *)
(* goroutine runs between two blocking points (channel send / receive,     *)
(* positioned I/O, process exit).  Channels are bounded FIFO queues.       *)
(* os.Exit stops every goroutine: all actions are guarded by Running.      *)
(***************************************************************************)
EXTENDS Integers, Sequences, FiniteSets, TLC

(***************************************************************************)
(* Bounds of the model.                                                    *)
(***************************************************************************)
MaxSize == 3
MaxBlockSize == 2
MaxWorkers == 2
\* The lowest invalid value of -bs and -workers is -MaxInvalid.
MaxInvalid == 1

\* The engine never inspects a byte: it only moves bytes.  The byte at
\* offset o of a source (device or input stream) is therefore labelled
\* o + 1, so that any loss, duplication or misplacement of a byte shows in
\* the result.  Blank is a device byte nothing was written to.
Blank == 0

Min(a, b) == IF a < b THEN a ELSE b

\* The source of n bytes.
Content(n) == [i \in 1..n |-> i]

VARIABLES
    devicePath,    \* main: -device flag
    mode,          \* main: -mode flag
    blockSize,     \* main: -bs flag
    workers,       \* main: -workers flag
    devSize,       \* environment: capacity of the device in bytes
    probe,         \* environment: what BLKGETSIZE64 and Stat answer on the device
    dev,           \* environment: the bytes of the device
    stdin,         \* environment: bytes of standard input not yet consumed
    stdinErr,      \* environment: TRUE when the input ends with an error, not EOF
    stdoutRoom,    \* environment: bytes standard output takes before its writes fail
    pc,            \* position of the main goroutine
    totalSize,     \* readBlockDevice / writeBlockDevice: totalSize
    tasks,         \* chan Task / chan WriteTask: queued elements
    tasksClosed,   \* close(tasks) has run
    results,       \* chan Result: queued elements
    resultsClosed, \* close(results) has run
    offset,        \* task generator (read) / dispatch loop (write): offset
    index,         \* task generator (read) / dispatch loop (write): index
    wk,            \* worker goroutines: position, task in hand, result in hand
    expected,      \* readBlockDevice: expected
    buffer,        \* readBlockDevice: buffer (index -> data)
    stdout,        \* bytes written to standard output
    bytesRead,     \* readBlockDevice: bytesRead
    bytesWritten,  \* writeBlockDevice: bytesWritten
    done,          \* close(done) has run
    ticker,        \* runProgressTicker: position and last progress line
    exitCode,      \* -1 while the process runs, then its exit status
    stderr,        \* the error message written to standard error before an exit
    hist           \* history of the run (observations only, never read by the code)

vars == <<devicePath, mode, blockSize, workers, devSize, probe, dev, stdin, stdinErr,
          stdoutRoom, pc, totalSize, tasks, tasksClosed, results, resultsClosed, offset, index,
          wk, expected, buffer, stdout, bytesRead, bytesWritten, done, ticker,
          exitCode, stderr, hist>>

envVars == <<devicePath, mode, blockSize, workers, devSize, probe, stdinErr,
             stdoutRoom>>

Running == exitCode = -1
Workers == 1..workers
NoTask == [index |-> -1]
NoResult == [index |-> -1]
EmptyBuffer == [i \in {} |-> <<>>]

\* History of the run: the tasks put on the queue in order, the indices
\* taken by the workers in order, the indices written to stdout in order,
\* the indices of the units written to the device, the index of every chunk
\* whose I/O failed and of every unit whose write came back short with no
\* error; whether a Result was ever put in the holding map, whether a unit
\* was ever written while a unit of lower index was still in a worker's
\* hands; the whole input stream of a write run; and, for a restore of a
\* backup, the content of the device the backup was read from.
InitHist == [sent |-> <<>>, taken |-> <<>>, emitted |-> <<>>, written |-> {},
             failed |-> {}, short |-> {}, held |-> FALSE, overtook |-> FALSE,
             input |-> <<>>, restored |-> FALSE, source |-> <<>>]

(***************************************************************************)
(* Positioned read (os.File.ReadAt): the bytes of d in [off, off+size); a  *)
(* read that meets the end of the device returns what is there with EOF.   *)
(***************************************************************************)
ReadAt(d, off, size) ==
    LET data == SubSeq(d, off + 1, Min(off + size, Len(d)))
    IN  [data |-> data, err |-> IF Len(data) < size THEN "EOF" ELSE "nil"]

(***************************************************************************)
(* Task generator: the size of the chunk at offset off.                    *)
(***************************************************************************)
\* A sequencer that never shortens the final chunk.
ChunkSizeFull(off) == blockSize

ChunkSize(off) ==
    IF off + blockSize > totalSize THEN totalSize - off ELSE blockSize


\* A worker that passes on whatever the read returned, error or not.
ReadResultNoErr(task, r) == [index |-> task.index, data |-> r.data, err |-> "nil"]

(***************************************************************************)
(* readWorker, lines 63-67: the Result sent for a task whose positioned    *)
(* read returned r.  Only an error other than EOF makes an error Result.   *)
(***************************************************************************)
ReadResult(task, r) ==
    IF r.err # "nil" /\ r.err # "EOF"
    THEN [index |-> task.index, data |-> <<>>, err |-> r.err]
    ELSE [index |-> task.index, data |-> r.data, err |-> "nil"]

(***************************************************************************)
(* readBlockDevice, lines 174-190: the Reorder/Emit step on one Result.    *)
(* st = [expected, buffer, stdout, bytesRead, emitted].                    *)
(***************************************************************************)
\* A drain that emits one held successor and stops (an "if" for the "for").
DrainOnce(st) ==
    IF st.expected \in DOMAIN st.buffer
    THEN [expected  |-> st.expected + 1,
          buffer    |-> [i \in DOMAIN st.buffer \ {st.expected} |-> st.buffer[i]],
          stdout    |-> st.stdout \o st.buffer[st.expected],
          bytesRead |-> st.bytesRead + Len(st.buffer[st.expected]),
          emitted   |-> Append(st.emitted, st.expected)]
    ELSE st

\* A drain that forgets to advance the byte counter.
RECURSIVE DrainNoCount(_)
DrainNoCount(st) ==
    IF st.expected \in DOMAIN st.buffer
    THEN DrainNoCount([expected  |-> st.expected + 1,
                       buffer    |-> [i \in DOMAIN st.buffer \ {st.expected} |-> st.buffer[i]],
                       stdout    |-> st.stdout \o st.buffer[st.expected],
                       bytesRead |-> st.bytesRead,
                       emitted   |-> Append(st.emitted, st.expected)])
    ELSE st

\* A drain that leaves in the holding map the chunks it has written.
RECURSIVE DrainKeep(_)
DrainKeep(st) ==
    IF st.expected \in DOMAIN st.buffer
    THEN DrainKeep([expected  |-> st.expected + 1,
                    buffer    |-> st.buffer,
                    stdout    |-> st.stdout \o st.buffer[st.expected],
                    bytesRead |-> st.bytesRead + Len(st.buffer[st.expected]),
                    emitted   |-> Append(st.emitted, st.expected)])
    ELSE st

RECURSIVE DrainBuffer(_)
DrainBuffer(st) ==
    IF st.expected \in DOMAIN st.buffer
    THEN DrainBuffer([expected  |-> st.expected + 1,
                      buffer    |-> [i \in DOMAIN st.buffer \ {st.expected} |-> st.buffer[i]],
                      stdout    |-> st.stdout \o st.buffer[st.expected],
                      bytesRead |-> st.bytesRead + Len(st.buffer[st.expected]),
                      emitted   |-> Append(st.emitted, st.expected)])
    ELSE st

\* A loop that writes every Result as it arrives, holding nothing back.
ReorderNoHold(res, st) ==
    [expected  |-> st.expected + 1,
     buffer    |-> st.buffer,
     stdout    |-> st.stdout \o res.data,
     bytesRead |-> st.bytesRead + Len(res.data),
     emitted   |-> Append(st.emitted, res.index)]

\* A loop that counts the held chunks it drains but not the chunk that
\* arrived in turn.
ReorderNoCount(res, st) ==
    IF res.index = st.expected
    THEN DrainBuffer([expected  |-> st.expected + 1,
                      buffer    |-> st.buffer,
                      stdout    |-> st.stdout \o res.data,
                      bytesRead |-> st.bytesRead,
                      emitted   |-> Append(st.emitted, res.index)])
    ELSE [st EXCEPT !.buffer = (res.index :> res.data) @@ st.buffer]

Reorder(res, st) ==
    IF res.index = st.expected
    THEN DrainBuffer([expected  |-> st.expected + 1,
                      buffer    |-> st.buffer,
                      stdout    |-> st.stdout \o res.data,
                      bytesRead |-> st.bytesRead + Len(res.data),
                      emitted   |-> Append(st.emitted, res.index)])
    ELSE [st EXCEPT !.buffer = (res.index :> res.data) @@ st.buffer]

(***************************************************************************)
(* Device Size Probe, the environment.  probe.ioctl is the size the        *)
(* BLKGETSIZE64 ioctl stores and probe.stat the size Stat reports, or      *)
(* NoSize when the call fails.  A block device answers the ioctl with its  *)
(* capacity and its node has size 0 in the file metadata; a regular file   *)
(* refuses the ioctl and has its length in the metadata.                   *)
(***************************************************************************)
NoSize == -1

BlockDevice(size) == [ioctl |-> size, stat |-> 0]
RegularFile(size) == [ioctl |-> NoSize, stat |-> size]
NoMetadata(size) == [ioctl |-> size, stat |-> NoSize]
Unprobeable == [ioctl |-> NoSize, stat |-> NoSize]

\* Lines 44-56: blockDeviceSize(f).
blockDeviceSize ==
    IF probe.ioctl # NoSize
    THEN [size |-> probe.ioctl, err |-> "nil"]
    ELSE [size |-> 0, err |-> "ENOTTY"]

\* file.Stat() and stat.Size(), lines 120-125 and 206-211.
Stat ==
    IF probe.stat # NoSize
    THEN [size |-> probe.stat, err |-> "nil"]
    ELSE [size |-> 0, err |-> "EIO"]

\* A probe that asks the file metadata first and the ioctl second.
ProbedSizeStatFirst == IF Stat.err = "nil" THEN Stat ELSE blockDeviceSize

\* Lines 118-126 and 204-212: the ioctl, and Stat only when the ioctl failed.
ProbedSize == IF blockDeviceSize.err = "nil" THEN blockDeviceSize ELSE Stat

(***************************************************************************)
(* What is written to standard error before an exit (the progress lines    *)
(* are in ticker).  A message is a record of its text and of the values    *)
(* formatted into it.                                                      *)
(***************************************************************************)
NoMessage == [text |-> ""]

(***************************************************************************)
(* os.Stdout.Write, lines 175 and 182.  stdoutRoom is the number of bytes  *)
(* standard output takes (a full disk, a pipe whose reader has gone), or   *)
(* NoLimit.  A write past it is cut short or fails outright, and so does   *)
(* every write after it: of all that was written, out, the stream holds    *)
(* the first stdoutRoom bytes.                                             *)
(***************************************************************************)
NoLimit == -1

Sink(out) ==
    IF stdoutRoom = NoLimit THEN out ELSE SubSeq(out, 1, Min(Len(out), stdoutRoom))

(***************************************************************************)
(* Initial states.  The state of the process when main starts a pipeline:  *)
(* nothing is open, no goroutine runs.                                     *)
(***************************************************************************)
InitPipeline ==
    /\ totalSize = 0
    /\ tasks = <<>>
    /\ tasksClosed = FALSE
    /\ results = <<>>
    /\ resultsClosed = FALSE
    /\ offset = 0
    /\ index = 0
    /\ wk = [w \in Workers |-> [pc |-> "off", task |-> NoTask, res |-> NoResult]]
    /\ expected = 0
    /\ buffer = EmptyBuffer
    /\ stdout = <<>>
    /\ bytesRead = 0
    /\ bytesWritten = 0
    /\ done = FALSE
    /\ ticker = [pc |-> "off", line |-> -1]
    /\ exitCode = -1
    /\ stderr = NoMessage

\* The same with a standard output that takes all that is written to it.
InitProcess ==
    /\ InitPipeline
    /\ stdoutRoom = NoLimit

(***************************************************************************)
(* The flags are valid and main has called readBlockDevice or              *)
(* writeBlockDevice.  The device holds at most devSize bytes (a regular    *)
(* file may have been truncated after it was sized).  The steps after the  *)
(* probe never look at how the size was obtained: the device is taken to   *)
(* be a block device, or one that cannot be sized at all.                  *)
(***************************************************************************)
InitCommon ==
    /\ devicePath = "/dev/xvda"
    /\ blockSize \in 1..MaxBlockSize
    /\ workers \in 1..MaxWorkers
    /\ devSize \in 0..MaxSize
    /\ probe \in {BlockDevice(devSize), Unprobeable}
    /\ pc = "open"
    /\ InitProcess

InitRead ==
    /\ mode = "read"
    /\ InitCommon
    /\ \E n \in 0..devSize : dev = Content(n)
    /\ stdin = <<>>
    /\ stdinErr = FALSE
    /\ hist = InitHist

(***************************************************************************)
(* os.Exit(code): the process is gone, nothing runs any more.              *)
(***************************************************************************)
Exit(code) ==
    /\ exitCode' = code
    /\ pc' = "exited"

\* fmt.Fprintf(os.Stderr, ...) followed by os.Exit(1).
Die(message) ==
    /\ stderr' = message
    /\ Exit(1)

\* A run-time panic (make with a negative size): the Go runtime prints the
\* panic and exits with status 2.
Panic ==
    /\ stderr' = [text |-> "panic"]
    /\ Exit(2)

(***************************************************************************)
(* readBlockDevice / writeBlockDevice, lines 110-115 and 197-202.          *)
(***************************************************************************)
OpenDevice ==
    /\ Running
    /\ pc = "open"
    /\ \/ /\ pc' = "probe"
          /\ UNCHANGED <<exitCode, stderr>>
       \/ Die([text |-> "Error opening device"])
    /\ UNCHANGED <<envVars, dev, stdin, totalSize, tasks, tasksClosed, results,
                   resultsClosed, offset, index, wk, expected, buffer, stdout,
                   bytesRead, bytesWritten, done, ticker, hist>>

(***************************************************************************)
(* Lines 118-165 and 204-225: the size probe (ioctl, else Stat, else exit) *)
(* and then the start of the workers, of the task generator and of the     *)
(* progress ticker.  make(chan, workers) panics on a negative capacity.    *)
(***************************************************************************)
ProbeSize ==
    /\ Running
    /\ pc = "probe"
    /\ IF ProbedSize.err # "nil"
       THEN /\ Die([text |-> "Error stat'ing device"])
            /\ UNCHANGED <<totalSize, wk, ticker>>
       ELSE IF workers < 0
       THEN /\ Panic
            /\ totalSize' = ProbedSize.size
            /\ UNCHANGED <<wk, ticker>>
       ELSE /\ totalSize' = ProbedSize.size
            /\ pc' = "loop"
            /\ wk' = [w \in Workers |-> [wk[w] EXCEPT !.pc = "recv"]]
            /\ ticker' = [ticker EXCEPT !.pc = "run"]
            /\ UNCHANGED <<exitCode, stderr>>
    /\ UNCHANGED <<envVars, dev, stdin, tasks, tasksClosed, results,
                   resultsClosed, offset, index, expected, buffer, stdout,
                   bytesRead, bytesWritten, done, hist>>

Started == pc \notin {"main", "open", "probe"}

(***************************************************************************)
(* Task generator goroutine, lines 146-159.  With a valid block size the   *)
(* loop ends by itself; MaxTasks caps it when -bs is not positive.         *)
(***************************************************************************)
MaxTasks == MaxSize + 2

\* A generator whose queue has no capacity: it never waits for a worker.
GenTaskNoBlock ==
    /\ Running /\ Started /\ mode = "read"
    /\ ~tasksClosed
    /\ index < MaxTasks
    /\ offset < totalSize
    /\ LET t == [index |-> index, offset |-> offset, size |-> ChunkSize(offset)]
       IN  /\ tasks' = Append(tasks, t)
           /\ offset' = offset + t.size
           /\ index' = index + 1
           /\ hist' = [hist EXCEPT !.sent = Append(@, t)]
    /\ UNCHANGED <<envVars, dev, stdin, pc, totalSize, tasksClosed, results,
                   resultsClosed, wk, expected, buffer, stdout, bytesRead,
                   bytesWritten, done, ticker, exitCode, stderr>>

GenTask ==
    /\ Running /\ Started /\ mode = "read"
    /\ ~tasksClosed
    /\ index < MaxTasks
    /\ offset < totalSize
    /\ Len(tasks) < workers
    /\ LET t == [index |-> index, offset |-> offset, size |-> ChunkSize(offset)]
       IN  /\ tasks' = Append(tasks, t)
           /\ offset' = offset + t.size
           /\ index' = index + 1
           /\ hist' = [hist EXCEPT !.sent = Append(@, t)]
    /\ UNCHANGED <<envVars, dev, stdin, pc, totalSize, tasksClosed, results,
                   resultsClosed, wk, expected, buffer, stdout, bytesRead,
                   bytesWritten, done, ticker, exitCode, stderr>>

\* A generator that may close the queue before the last chunk is queued.
GenCloseEarly ==
    /\ Running /\ Started /\ mode = "read"
    /\ ~tasksClosed
    /\ tasksClosed' = TRUE
    /\ UNCHANGED <<envVars, dev, stdin, pc, totalSize, tasks, results,
                   resultsClosed, offset, index, wk, expected, buffer, stdout,
                   bytesRead, bytesWritten, done, ticker, exitCode, stderr, hist>>

GenClose ==
    /\ Running /\ Started /\ mode = "read"
    /\ ~tasksClosed
    /\ ~(offset < totalSize)
    /\ tasksClosed' = TRUE
    /\ UNCHANGED <<envVars, dev, stdin, pc, totalSize, tasks, results,
                   resultsClosed, offset, index, wk, expected, buffer, stdout,
                   bytesRead, bytesWritten, done, ticker, exitCode, stderr, hist>>

(***************************************************************************)
(* readWorker, lines 59-69, and the goroutine around it, lines 134-137.    *)
(***************************************************************************)
\* A worker that takes the task queued last, not the one queued first.
RecvTaskLast(w) ==
    /\ Running
    /\ wk[w].pc = "recv"
    /\ tasks # <<>>
    /\ wk' = [wk EXCEPT ![w] = [pc |-> "io", task |-> tasks[Len(tasks)],
                                res |-> NoResult]]
    /\ tasks' = SubSeq(tasks, 1, Len(tasks) - 1)
    /\ hist' = [hist EXCEPT !.taken = Append(@, tasks[Len(tasks)].index)]
    /\ UNCHANGED <<envVars, dev, stdin, pc, totalSize, tasksClosed, results,
                   resultsClosed, offset, index, expected, buffer, stdout,
                   bytesRead, bytesWritten, done, ticker, exitCode, stderr>>

\* A worker that looks at the head of the queue and leaves it there.
RecvTaskPeek(w) ==
    /\ Running
    /\ wk[w].pc = "recv"
    /\ tasks # <<>>
    /\ wk' = [wk EXCEPT ![w] = [pc |-> "io", task |-> Head(tasks), res |-> NoResult]]
    /\ tasks' = tasks
    /\ hist' = [hist EXCEPT !.taken = Append(@, Head(tasks).index)]
    /\ UNCHANGED <<envVars, dev, stdin, pc, totalSize, tasksClosed, results,
                   resultsClosed, offset, index, expected, buffer, stdout,
                   bytesRead, bytesWritten, done, ticker, exitCode, stderr>>

RecvTask(w) ==
    /\ Running
    /\ wk[w].pc = "recv"
    /\ tasks # <<>>
    /\ wk' = [wk EXCEPT ![w] = [pc |-> "io", task |-> Head(tasks), res |-> NoResult]]
    /\ tasks' = Tail(tasks)
    /\ hist' = [hist EXCEPT !.taken = Append(@, Head(tasks).index)]
    /\ UNCHANGED <<envVars, dev, stdin, pc, totalSize, tasksClosed, results,
                   resultsClosed, offset, index, expected, buffer, stdout,
                   bytesRead, bytesWritten, done, ticker, exitCode, stderr>>

\* A worker that does not see the close of the task queue: it waits for a
\* task for ever.
WorkerReturnNever(w) ==
    /\ FALSE
    /\ UNCHANGED vars

WorkerReturn(w) ==
    /\ Running
    /\ wk[w].pc = "recv"
    /\ tasks = <<>>
    /\ tasksClosed
    /\ wk' = [wk EXCEPT ![w].pc = "done"]
    /\ UNCHANGED <<envVars, dev, stdin, pc, totalSize, tasks, tasksClosed, results,
                   resultsClosed, offset, index, expected, buffer, stdout,
                   bytesRead, bytesWritten, done, ticker, exitCode, stderr, hist>>

\* What file.ReadAt can return for a task: the bytes, or an I/O error.
ReadOutcomes(task) ==
    {ReadAt(dev, task.offset, task.size), [data |-> <<>>, err |-> "EIO"]}

\* Line 61, make([]byte, task.size), panics on a negative size.
DoReadAt(w) ==
    /\ Running /\ mode = "read"
    /\ wk[w].pc = "io"
    /\ IF wk[w].task.size < 0
       THEN /\ Panic
            /\ UNCHANGED <<wk, hist>>
       ELSE /\ \E r \in ReadOutcomes(wk[w].task) :
                  /\ wk' = [wk EXCEPT ![w].pc = "send",
                                      ![w].res = ReadResult(wk[w].task, r)]
                  /\ hist' = [hist EXCEPT !.failed =
                                 IF r.err \notin {"nil", "EOF"}
                                 THEN @ \cup {wk[w].task.index} ELSE @]
            /\ UNCHANGED <<pc, exitCode, stderr>>
    /\ UNCHANGED <<envVars, dev, stdin, totalSize, tasks, tasksClosed, results,
                   resultsClosed, offset, index, expected, buffer, stdout,
                   bytesRead, bytesWritten, done, ticker>>

SendResult(w) ==
    /\ Running
    /\ wk[w].pc = "send"
    /\ Len(results) < workers
    /\ results' = Append(results, wk[w].res)
    /\ wk' = [wk EXCEPT ![w] = [pc |-> "recv", task |-> NoTask, res |-> NoResult]]
    /\ UNCHANGED <<envVars, dev, stdin, pc, totalSize, tasks, tasksClosed,
                   resultsClosed, offset, index, expected, buffer, stdout,
                   bytesRead, bytesWritten, done, ticker, exitCode, stderr, hist>>

(***************************************************************************)
(* Lines 140-143: close(results) once every worker has returned.           *)
(***************************************************************************)
\* A waiter that closes results without waiting for the workers.
CloseResultsEarly ==
    /\ Running /\ Started /\ mode = "read"
    /\ ~resultsClosed
    /\ resultsClosed' = TRUE
    /\ UNCHANGED <<envVars, dev, stdin, pc, totalSize, tasks, tasksClosed, results,
                   offset, index, wk, expected, buffer, stdout, bytesRead,
                   bytesWritten, done, ticker, exitCode, stderr, hist>>

CloseResults ==
    /\ Running /\ Started /\ mode = "read"
    /\ ~resultsClosed
    /\ \A w \in Workers : wk[w].pc = "done"
    /\ resultsClosed' = TRUE
    /\ UNCHANGED <<envVars, dev, stdin, pc, totalSize, tasks, tasksClosed, results,
                   offset, index, wk, expected, buffer, stdout, bytesRead,
                   bytesWritten, done, ticker, exitCode, stderr, hist>>

\* A loop that never looks at res.err.
IsErrorNever(res) == FALSE

\* Line 170: is this Result an error Result?
IsError(res) == res.err # "nil"

(***************************************************************************)
(* readBlockDevice, lines 169-191: one iteration of the loop over results. *)
(***************************************************************************)
HandleResult ==
    /\ Running /\ mode = "read"
    /\ pc = "loop"
    /\ results # <<>>
    /\ results' = Tail(results)
    /\ LET res == Head(results)
           st  == Reorder(res, [expected |-> expected, buffer |-> buffer,
                                stdout |-> stdout, bytesRead |-> bytesRead,
                                emitted |-> hist.emitted])
       IN  IF IsError(res)
           THEN /\ Die([text |-> "Error in worker", index |-> res.index,
                        cause |-> res.err])
                /\ UNCHANGED <<expected, buffer, stdout, bytesRead, hist>>
           ELSE /\ expected' = st.expected
                /\ buffer' = st.buffer
                /\ stdout' = Sink(st.stdout)
                /\ bytesRead' = st.bytesRead
                /\ hist' = [hist EXCEPT !.emitted = st.emitted,
                                        !.held = @ \/ st.buffer # EmptyBuffer]
                /\ UNCHANGED <<pc, exitCode, stderr>>
    /\ UNCHANGED <<envVars, dev, stdin, totalSize, tasks, tasksClosed,
                   resultsClosed, offset, index, wk, bytesWritten, done, ticker>>

\* Line 192: the loop ends when results is closed and drained.
ReadLoopEnd ==
    /\ Running /\ mode = "read"
    /\ pc = "loop"
    /\ results = <<>>
    /\ resultsClosed
    /\ done' = TRUE
    /\ pc' = "return"
    /\ UNCHANGED <<envVars, dev, stdin, totalSize, tasks, tasksClosed, results,
                   resultsClosed, offset, index, wk, expected, buffer, stdout,
                   bytesRead, bytesWritten, ticker, exitCode, stderr, hist>>

\* main returns after readBlockDevice / writeBlockDevice: exit status 0.
MainReturn ==
    /\ Running
    /\ pc = "return"
    /\ Exit(0)
    /\ UNCHANGED <<envVars, stderr, dev, stdin, totalSize, tasks, tasksClosed, results,
                   resultsClosed, offset, index, wk, expected, buffer, stdout,
                   bytesRead, bytesWritten, done, ticker, hist>>

(***************************************************************************)
(* runProgressTicker, lines 90-106.                                        *)
(***************************************************************************)
Counter == IF mode = "read" THEN bytesRead ELSE bytesWritten

\* A reporter that resets the counter it has just printed.
TickResets ==
    /\ Running
    /\ ticker.pc = "run"
    /\ ticker' = [ticker EXCEPT !.line = Counter]
    /\ bytesRead' = 0
    /\ bytesWritten' = 0
    /\ UNCHANGED <<envVars, dev, stdin, pc, totalSize, tasks, tasksClosed, results,
                   resultsClosed, offset, index, wk, expected, buffer, stdout,
                   done, exitCode, stderr, hist>>

Tick ==
    /\ Running
    /\ ticker.pc = "run"
    /\ ticker' = [ticker EXCEPT !.line = Counter]
    /\ UNCHANGED <<envVars, dev, stdin, pc, totalSize, tasks, tasksClosed, results,
                   resultsClosed, offset, index, wk, expected, buffer, stdout,
                   bytesRead, bytesWritten, done, exitCode, stderr, hist>>

TickerDone ==
    /\ Running
    /\ ticker.pc = "run"
    /\ done
    /\ ticker' = [ticker EXCEPT !.pc = "stopped"]
    /\ UNCHANGED <<envVars, dev, stdin, pc, totalSize, tasks, tasksClosed, results,
                   resultsClosed, offset, index, wk, expected, buffer, stdout,
                   bytesRead, bytesWritten, done, exitCode, stderr, hist>>

ReadPath ==
    \/ OpenDevice
    \/ ProbeSize
    \/ GenTask
    \/ GenClose
    \/ \E w \in Workers : RecvTask(w)
    \/ \E w \in Workers : WorkerReturn(w)
    \/ \E w \in Workers : DoReadAt(w)
    \/ \E w \in Workers : SendResult(w)
    \/ CloseResults
    \/ HandleResult
    \/ ReadLoopEnd
    \/ MainReturn

NextRead == ReadPath \/ Tick \/ TickerDone

SpecRead == InitRead /\ [][NextRead]_vars


(***************************************************************************)
(* Write path.                                                             *)
(***************************************************************************)
MaxInput == MaxSize + 1

InitWrite ==
    /\ mode = "write"
    /\ InitCommon
    /\ dev = [i \in 1..devSize |-> Blank]
    /\ \E n \in 0..MaxInput : stdin = Content(n)
    /\ stdinErr \in BOOLEAN
    /\ hist = [InitHist EXCEPT !.input = stdin]

(***************************************************************************)
(* io.ReadFull(os.Stdin, buf) with len(buf) = size on the bytes left in    *)
(* the stream: a full buffer, or what is left with the error that ends the *)
(* stream (EOF when nothing was read, ErrUnexpectedEOF after a partial     *)
(* read, the stream's own error when it is broken).                        *)
(***************************************************************************)
\* A single Read in place of io.ReadFull: it returns the bytes at hand (here
\* one byte) without waiting for the buffer to fill.
ReadOnce(stream, size, broken) ==
    IF Len(stream) >= 1 /\ size >= 1
    THEN [data |-> SubSeq(stream, 1, 1), err |-> "nil"]
    ELSE [data |-> <<>>, err |-> IF broken THEN "EIO" ELSE "EOF"]

ReadFull(stream, size, broken) ==
    IF Len(stream) >= size
    THEN [data |-> SubSeq(stream, 1, size), err |-> "nil"]
    ELSE [data |-> stream,
          err  |-> IF broken THEN "EIO"
                   ELSE IF Len(stream) = 0 THEN "EOF" ELSE "ErrUnexpectedEOF"]

\* The stream after a ReadFull that returned r.
Consumed(stream, r) == SubSeq(stream, Len(r.data) + 1, Len(stream))

(***************************************************************************)
(* writeBlockDevice, lines 229-248: one iteration of the dispatch loop,    *)
(* with the close(tasks) that follows a break.  The send blocks while the  *)
(* queue is full.  Line 230, make([]byte, blockSize), panics on a negative *)
(* block size; with a valid block size the loop ends with the input, and   *)
(* MaxTasks caps it when -bs is 0.                                         *)
(***************************************************************************)
\* A unit placed at its index instead of its byte offset.
WriteUnitAtIndex(r) == [index |-> index, offset |-> index, data |-> r.data]

WriteUnit(r) == [index |-> index, offset |-> offset, data |-> r.data]

\* A loop that queues an empty last unit at the clean end of the input.
DispatchEndEmptyUnit(r) ==
    /\ Len(tasks) < workers
    /\ tasks' = Append(tasks, WriteUnit(r))
    /\ tasksClosed' = TRUE
    /\ pc' = "wait"
    /\ hist' = [hist EXCEPT !.sent = Append(@, WriteUnit(r))]
    /\ UNCHANGED <<bytesWritten, offset, index, exitCode, stderr>>

\* A loop that leaves the task queue open at the clean end of the input.
DispatchEndNoClose(r) ==
    /\ pc' = "wait"
    /\ UNCHANGED <<tasks, tasksClosed, bytesWritten, offset, index, exitCode,
                   stderr, hist>>

\* Lines 232-233: clean end of input, nothing more to submit.
DispatchEnd(r) ==
    /\ tasksClosed' = TRUE
    /\ pc' = "wait"
    /\ UNCHANGED <<tasks, bytesWritten, offset, index, exitCode, stderr, hist>>

\* A loop that treats the truncated final read as a clean end of input.
DispatchLastDropped(r) == DispatchEnd(r)

\* Lines 234-237: the truncated final read is submitted as the last unit.
DispatchLast(r) ==
    /\ Len(tasks) < workers
    /\ tasks' = Append(tasks, WriteUnit(r))
    /\ bytesWritten' = bytesWritten + Len(r.data)
    /\ tasksClosed' = TRUE
    /\ pc' = "wait"
    /\ hist' = [hist EXCEPT !.sent = Append(@, WriteUnit(r))]
    /\ UNCHANGED <<offset, index, exitCode, stderr>>

\* A loop that forgets to advance the offset after a full unit.
DispatchFullStaleOffset(r) ==
    /\ Len(tasks) < workers
    /\ tasks' = Append(tasks, WriteUnit(r))
    /\ bytesWritten' = bytesWritten + Len(r.data)
    /\ offset' = offset
    /\ index' = index + 1
    /\ hist' = [hist EXCEPT !.sent = Append(@, WriteUnit(r))]
    /\ UNCHANGED <<tasksClosed, pc, exitCode, stderr>>

\* A loop whose send never waits for room in the queue.
DispatchFullNoBlock(r) ==
    /\ tasks' = Append(tasks, WriteUnit(r))
    /\ bytesWritten' = bytesWritten + Len(r.data)
    /\ offset' = offset + Len(r.data)
    /\ index' = index + 1
    /\ hist' = [hist EXCEPT !.sent = Append(@, WriteUnit(r))]
    /\ UNCHANGED <<tasksClosed, pc, exitCode, stderr>>

\* Lines 242-245: a full unit is submitted and the loop goes on.
DispatchFull(r) ==
    /\ Len(tasks) < workers
    /\ tasks' = Append(tasks, WriteUnit(r))
    /\ bytesWritten' = bytesWritten + Len(r.data)
    /\ offset' = offset + Len(r.data)
    /\ index' = index + 1
    /\ hist' = [hist EXCEPT !.sent = Append(@, WriteUnit(r))]
    /\ UNCHANGED <<tasksClosed, pc, exitCode, stderr>>

\* A loop that takes a failed read for the truncated final read.
DispatchFailSubmits(r) == DispatchLast(r)

\* Lines 238-240: the input stream failed.
DispatchFail(r) ==
    /\ Die([text |-> "Error reading input", cause |-> r.err])
    /\ UNCHANGED <<tasks, tasksClosed, bytesWritten, offset, index, hist>>

Dispatch ==
    /\ Running /\ mode = "write"
    /\ pc = "loop"
    /\ index < MaxTasks
    /\ IF blockSize < 0
       THEN /\ Panic
            /\ UNCHANGED <<stdin, tasks, tasksClosed, bytesWritten, offset, index, hist>>
       ELSE LET r == ReadFull(stdin, blockSize, stdinErr)
            IN  /\ stdin' = Consumed(stdin, r)
                /\ CASE r.err = "EOF" -> DispatchEnd(r)
                     [] r.err = "ErrUnexpectedEOF" -> DispatchLast(r)
                     [] r.err = "nil" -> DispatchFull(r)
                     [] OTHER -> DispatchFail(r)
    /\ UNCHANGED <<envVars, dev, totalSize, results, resultsClosed, wk, expected,
                   buffer, stdout, bytesRead, done, ticker>>

\* A writeBlockDevice that closes done without waiting for the workers.
WaitWorkersNoWait ==
    /\ Running /\ mode = "write"
    /\ pc = "wait"
    /\ done' = TRUE
    /\ pc' = "return"
    /\ UNCHANGED <<envVars, dev, stdin, totalSize, tasks, tasksClosed, results,
                   resultsClosed, offset, index, wk, expected, buffer, stdout,
                   bytesRead, bytesWritten, ticker, exitCode, stderr, hist>>

\* Lines 249-250: wg.Wait() returns once every worker has returned.
WaitWorkers ==
    /\ Running /\ mode = "write"
    /\ pc = "wait"
    /\ \A w \in Workers : wk[w].pc = "done"
    /\ done' = TRUE
    /\ pc' = "return"
    /\ UNCHANGED <<envVars, dev, stdin, totalSize, tasks, tasksClosed, results,
                   resultsClosed, offset, index, wk, expected, buffer, stdout,
                   bytesRead, bytesWritten, ticker, exitCode, stderr, hist>>

(***************************************************************************)
(* Positioned write (os.File.WriteAt) of data at off on device d: what it  *)
(* can report, and the device after n bytes went in.  A block device does  *)
(* not grow: what does not fit is refused with ENOSPC.  A write that fits  *)
(* succeeds, fails with an I/O error after n bytes, or reports n bytes     *)
(* with no error (the case line 80 tests for).                             *)
(***************************************************************************)
WriteOutcomes(d, off, data) ==
    LET room == Len(d) - off
        fit  == IF room < 0 THEN 0 ELSE Min(Len(data), room)
    IN  IF fit < Len(data)
        THEN {[n |-> fit, err |-> "ENOSPC"]}
        ELSE {[n |-> Len(data), err |-> "nil"]}
             \cup {[n |-> k, err |-> e] : k \in 0..(Len(data) - 1), e \in {"EIO", "nil"}}

PutBytes(d, off, data, n) ==
    [i \in 1..Len(d) |-> IF i > off /\ i <= off + n THEN data[i - off] ELSE d[i]]

\* A worker that ignores what WriteAt returned.
WriteOkAlways(task, r) == TRUE

\* A worker that tests the error only, not the byte count.
WriteOkNoShort(task, r) == r.err = "nil"

\* writeWorker, lines 76-83: does the worker go on after WriteAt returned r?
WriteOk(task, r) == r.err = "nil" /\ r.n = Len(task.data)

(***************************************************************************)
(* writeWorker, lines 75-83.                                               *)
(***************************************************************************)
DoWriteAt(w) ==
    /\ Running /\ mode = "write"
    /\ wk[w].pc = "io"
    /\ LET task == wk[w].task
       IN  \E r \in WriteOutcomes(dev, task.offset, task.data) :
              /\ dev' = PutBytes(dev, task.offset, task.data, r.n)
              /\ wk' = IF WriteOk(task, r)
                       THEN [wk EXCEPT ![w] = [pc |-> "recv", task |-> NoTask,
                                               res |-> NoResult]]
                       ELSE [wk EXCEPT ![w].pc = "fail",
                                     ![w].res = [index |-> task.index,
                                                 err |-> IF r.err # "nil" THEN r.err
                                                         ELSE "short"]]
              /\ hist' = [hist EXCEPT
                    !.written  = IF r.n = Len(task.data) /\ r.err = "nil"
                                 THEN @ \cup {task.index} ELSE @,
                    !.failed   = IF r.err # "nil" THEN @ \cup {task.index} ELSE @,
                    !.short    = IF r.n < Len(task.data) /\ r.err = "nil"
                                 THEN @ \cup {task.index} ELSE @,
                    !.overtook = @ \/ \E v \in Workers \ {w} :
                                         /\ wk[v].pc = "io"
                                         /\ wk[v].task.index < task.index]
    /\ UNCHANGED <<envVars, stdin, pc, totalSize, tasks, tasksClosed, results,
                   resultsClosed, offset, index, expected, buffer, stdout,
                   bytesRead, bytesWritten, done, ticker, exitCode, stderr>>

\* Lines 77 and 81: the message for a unit whose write ended with err, or
\* came back short ("short") with no error.
WriteFailure(task, err) ==
    IF err # "short"
    THEN [text |-> "Error writing block", index |-> task.index,
          offset |-> task.offset, cause |-> err]
    ELSE [text |-> "Short write for block", index |-> task.index,
          offset |-> task.offset]

\* Lines 77-78 and 81-82: the message and os.Exit(1).
WorkerExit(w) ==
    /\ Running
    /\ wk[w].pc = "fail"
    /\ Die(WriteFailure(wk[w].task, wk[w].res.err))
    /\ UNCHANGED <<envVars, dev, stdin, totalSize, tasks, tasksClosed, results,
                   resultsClosed, offset, index, wk, expected, buffer, stdout,
                   bytesRead, bytesWritten, done, ticker, hist>>

WritePath ==
    \/ OpenDevice
    \/ ProbeSize
    \/ Dispatch
    \/ \E w \in Workers : RecvTask(w)
    \/ \E w \in Workers : WorkerReturn(w)
    \/ \E w \in Workers : DoWriteAt(w)
    \/ \E w \in Workers : WorkerExit(w)
    \/ WaitWorkers
    \/ MainReturn

NextWrite == WritePath \/ Tick \/ TickerDone

SpecWrite == InitWrite /\ [][NextWrite]_vars


(***************************************************************************)
(* The program: one invocation, in read mode or in write mode.             *)
(***************************************************************************)
Init == InitRead \/ InitWrite

Next == NextRead \/ NextWrite

Spec == Init /\ [][Next]_vars

(***************************************************************************)
(* main, lines 253-278: the flags, then the mode selector.  Apart from the *)
(* device path and the mode nothing is validated: -bs and -workers are     *)
(* passed on as parsed.                                                    *)
(***************************************************************************)
DevicePaths == {"", "/dev/xvda"}
Modes == {"", "read", "write", "copy"}

\* A main that checks the device path only.
UsageErrorPathOnly == devicePath = ""

\* Lines 265 and 270-274: the invocation is refused.
UsageError == devicePath = "" \/ mode \notin {"read", "write"}

Main ==
    /\ Running
    /\ pc = "main"
    /\ IF UsageError
       THEN Die([text |-> IF devicePath = "" THEN "Error: No device specified"
                          ELSE "Error: Invalid mode"])
       ELSE /\ pc' = "open"
            /\ UNCHANGED <<exitCode, stderr>>
    /\ UNCHANGED <<envVars, dev, stdin, totalSize, tasks, tasksClosed, results,
                   resultsClosed, offset, index, wk, expected, buffer, stdout,
                   bytesRead, bytesWritten, done, ticker, hist>>

\* The device and the standard streams at the start: as in InitWrite for
\* a write, as in InitRead otherwise.
InitStreams ==
    IF mode = "write"
    THEN /\ dev = [i \in 1..devSize |-> Blank]
         /\ \E n \in 0..MaxInput : stdin = Content(n)
         /\ stdinErr \in BOOLEAN
         /\ hist = [InitHist EXCEPT !.input = stdin]
    ELSE /\ \E n \in 0..devSize : dev = Content(n)
         /\ stdin = <<>>
         /\ stdinErr = FALSE
         /\ hist = InitHist

\* The process at the start of main, with -bs from bss and -workers from wks.
InitInvocation(bss, wks) ==
    /\ devicePath \in DevicePaths
    /\ mode \in Modes
    /\ blockSize \in bss
    /\ workers \in wks
    /\ devSize \in 0..MaxSize
    /\ probe \in {BlockDevice(devSize), Unprobeable}
    /\ pc = "main"
    /\ InitProcess
    /\ InitStreams

NextMain == Main \/ Next

\* Any device path and mode, valid -bs and -workers.
InitMain == InitInvocation(1..MaxBlockSize, 1..MaxWorkers)

SpecMain == InitMain /\ [][NextMain]_vars

\* Any device path and mode, and -bs and -workers valid or not.
InitFlags == InitInvocation((-MaxInvalid)..MaxBlockSize, (-MaxInvalid)..MaxWorkers)

SpecFlags == InitFlags /\ [][NextMain]_vars

(***************************************************************************)
(* The Device Size Probe on every kind of device: one that answers the     *)
(* ioctl (with or without file metadata), one that answers Stat only, one  *)
(* that answers neither.                                                   *)
(***************************************************************************)
InitProbe ==
    /\ devicePath = "/dev/xvda"
    /\ mode \in {"read", "write"}
    /\ blockSize \in 1..MaxBlockSize
    /\ workers \in 1..MaxWorkers
    /\ devSize \in 0..MaxSize
    /\ probe \in {BlockDevice(devSize), RegularFile(devSize), NoMetadata(devSize),
                  Unprobeable}
    /\ pc = "open"
    /\ InitProcess
    /\ InitStreams

\* The probe is over before the ticker starts and no step of the data path
\* reads the ticker: the runs in which the timer does not fire show all
\* there is to see of the probe.
SpecProbe == InitProbe /\ [][ReadPath \/ WritePath \/ TickerDone]_vars

(***************************************************************************)
(* Backup then restore (manifests: "accelerated_io -mode=read | restic     *)
(* backup --stdin" and "restic dump | accelerated_io -mode=write"): the    *)
(* bytes a successful read run wrote to stdout are the input of a write    *)
(* run, with its own block size and worker count, on a blank device of the *)
(* same size.                                                              *)
(***************************************************************************)
Restore ==
    /\ mode = "read"
    /\ exitCode = 0
    /\ mode' = "write"
    /\ devicePath' = devicePath
    /\ blockSize' \in 1..MaxBlockSize
    /\ workers' \in 1..MaxWorkers
    /\ devSize' = devSize
    /\ probe' \in {BlockDevice(devSize), Unprobeable}
    /\ stderr' = NoMessage
    /\ dev' = [i \in 1..devSize |-> Blank]
    /\ stdin' = stdout
    /\ stdinErr' \in BOOLEAN
    /\ stdoutRoom' = stdoutRoom
    /\ pc' = "open"
    /\ totalSize' = 0
    /\ tasks' = <<>>
    /\ tasksClosed' = FALSE
    /\ results' = <<>>
    /\ resultsClosed' = FALSE
    /\ offset' = 0
    /\ index' = 0
    /\ wk' = [w \in 1..workers' |-> [pc |-> "off", task |-> NoTask, res |-> NoResult]]
    /\ expected' = 0
    /\ buffer' = EmptyBuffer
    /\ stdout' = <<>>
    /\ bytesRead' = 0
    /\ bytesWritten' = 0
    /\ done' = FALSE
    /\ ticker' = [pc |-> "off", line |-> -1]
    /\ exitCode' = -1
    /\ hist' = [InitHist EXCEPT !.input = stdout, !.restored = TRUE, !.source = dev]

InitRoundTrip == InitRead /\ Len(dev) = devSize

NextRoundTrip == Next \/ Restore

SpecRoundTrip == InitRoundTrip /\ [][NextRoundTrip]_vars

(***************************************************************************)
(* Scheduling.  Goroutines are scheduled fairly: a goroutine that can run  *)
(* does run.  Every goroutine of the data path is finite, so it is enough  *)
(* to ask that the data path as a whole keeps running while it can.        *)
(*                                                                         *)
(* Tick changes ticker.line only, and no step of the data path reads the   *)
(* ticker: ticks neither enable nor disable nor alter a data-path step.    *)
(* The fair specifications therefore take the runs in which the timer does *)
(* not fire (it fires once per second); what they show of the data path    *)
(* holds with any number of ticks in between.                              *)
(***************************************************************************)
FairSpec == Init /\ [][ReadPath \/ WritePath \/ TickerDone]_vars
                 /\ WF_vars(ReadPath \/ WritePath)

\* The same runs of the two pipelines with no fairness assumed.
SpecPipelines == Init /\ [][ReadPath \/ WritePath \/ TickerDone]_vars

FairSpecRead == InitRead /\ [][ReadPath \/ TickerDone]_vars /\ WF_vars(ReadPath)

FairSpecWrite == InitWrite /\ [][WritePath \/ TickerDone]_vars /\ WF_vars(WritePath)

(***************************************************************************)
(* Properties.                                                             *)
(***************************************************************************)
Ceil(a, b) == (a + b - 1) \div b

RECURSIVE SumSizes(_)
SumSizes(ts) == IF ts = <<>> THEN 0 ELSE Head(ts).size + SumSizes(Tail(ts))

\* C1: on the read path the chunks are written to stdout in strictly
\* ascending index order 0, 1, 2, ...: each index once, no gap, no
\* duplicate, whatever the order in which the workers complete.
C1_EmitInOrder ==
    mode = "read" =>
        /\ \A i \in 1..Len(hist.emitted) : hist.emitted[i] = i - 1
        /\ Len(hist.emitted) = expected

\* C1 witness: a run of three chunks and two workers that completed, in
\* which a Result arrived ahead of its turn and was held.
C1_Witness ==
    /\ mode = "read" /\ exitCode = 0
    /\ workers = 2 /\ hist.held /\ Len(hist.emitted) = 3

\* C2: when the read loop has finished (no chunk error), the bytes written
\* to stdout are the bytes of the device, in address order.
C2_OutputIsDevice ==
    (mode = "read" /\ done) => stdout = dev

\* C2 witness: a three-byte device read in two chunks (the last one short)
\* by two workers that completed out of order.
C2_Witness ==
    /\ mode = "read" /\ exitCode = 0
    /\ Len(dev) = 3 /\ totalSize = 3 /\ blockSize = 2 /\ workers = 2 /\ hist.held

\* C3: a backup of a device of size S that is restored on a device of size
\* S, with any block sizes and worker counts on the two sides, gives back
\* the content of the original device.
C3_RoundTrip ==
    (hist.restored /\ exitCode = 0) => dev = hist.source

\* C3 witness: a restore of a three-byte backup that completed, with two
\* workers that wrote their units out of order.
C3_Witness ==
    /\ hist.restored /\ exitCode = 0
    /\ Len(hist.source) = 3 /\ blockSize = 2 /\ workers = 2 /\ hist.overtook

\* C4: the read tasks partition [0, totalSize): indices 0, 1, ..., every
\* task inside the device, every task but the last of length blockSize,
\* consecutive tasks adjacent; and once the sequencer has closed the queue
\* there are ceil(totalSize / blockSize) tasks, their lengths sum to
\* totalSize, the last has length totalSize - blockSize * (count - 1), and
\* every byte of the device lies in exactly one task.
C4_Partition ==
    mode = "read" =>
        LET n == Len(hist.sent)
        IN  /\ \A i \in 1..n :
                  LET t == hist.sent[i]
                  IN  /\ t.index = i - 1
                      /\ t.offset = (i - 1) * blockSize
                      /\ t.size >= 1
                      /\ t.offset + t.size <= totalSize
                      /\ i < n => t.size = blockSize
            /\ tasksClosed =>
                  /\ n = Ceil(totalSize, blockSize)
                  /\ SumSizes(hist.sent) = totalSize
                  /\ n > 0 => hist.sent[n].size = totalSize - blockSize * (n - 1)
                  /\ \A b \in 0..(totalSize - 1) :
                        Cardinality({i \in 1..n :
                            /\ hist.sent[i].offset <= b
                            /\ b < hist.sent[i].offset + hist.sent[i].size}) = 1

\* C4 witness: the sequencer has closed the queue after two tasks on a
\* three-byte device with block size 2 (the last task is short).
C4_Witness ==
    /\ mode = "read" /\ tasksClosed
    /\ totalSize = 3 /\ blockSize = 2 /\ Len(hist.sent) = 2

\* C5: when the write run ends with status 0, the device holds the input
\* stream from offset 0 and is untouched beyond it, whatever the order in
\* which the workers wrote: the final content depends on the input only.
C5_DeviceIsInput ==
    (mode = "write" /\ exitCode = 0) =>
        /\ Len(hist.input) <= Len(dev)
        /\ \A i \in 1..Len(dev) :
              dev[i] = IF i <= Len(hist.input) THEN hist.input[i] ELSE Blank

\* C5 witness: a write run of three units and two workers that completed
\* after a unit was written while a unit of lower index was still in hand.
C5_Witness ==
    /\ mode = "write" /\ exitCode = 0
    /\ Len(hist.input) = 3 /\ blockSize = 1 /\ workers = 2 /\ hist.overtook


\* C6: on the read path, once the positioned read of chunk k has failed
\* (not with EOF), no chunk of index greater than k is ever written to
\* stdout, the process never exits with status 0, and it does exit, with
\* status 1.
C6_ReadFailFast ==
    /\ [](mode = "read" =>
            \A k \in hist.failed : \A i \in 1..Len(hist.emitted) : hist.emitted[i] <= k)
    /\ []((mode = "read" /\ hist.failed # {}) => exitCode # 0)
    /\ (mode = "read" /\ hist.failed # {}) ~> (exitCode = 1)

\* C6 witness: chunk 1 of three failed while chunk 2, read by the other
\* worker, was already held; chunk 0 alone was written and the exit is 1.
C6_Witness ==
    /\ mode = "read" /\ exitCode = 1
    /\ hist.failed = {1} /\ hist.emitted = <<0>> /\ 2 \in DOMAIN buffer

\* C7 as stated: once the write of unit k has failed, no unit of index
\* greater than k has been or is ever written to the device.
C7_NoLaterUnitWritten ==
    mode = "write" => \A k \in hist.failed : \A i \in hist.written : i <= k

\* C7 as amended: once the write of unit k has failed the process never
\* exits with status 0 and does exit with status 1; the worker whose write
\* failed does nothing more, and nothing is written to the device after the
\* exit.  (Units of index greater than k may have been written by the other
\* workers before the exit.)
C7_WriteFailFast ==
    /\ []((mode = "write" /\ hist.failed # {}) => exitCode # 0)
    /\ (mode = "write" /\ hist.failed # {}) ~> (exitCode = 1)
    /\ [][mode = "write" =>
            /\ \A w \in Workers : wk[w].pc = "fail" => wk'[w] = wk[w]
            /\ ~Running => (dev' = dev /\ hist'.written = hist.written)]_vars

\* C7 witness: the write of unit 0 failed, unit 1 was written by the other
\* worker, and the process exited with status 1.
C7_Witness ==
    /\ mode = "write" /\ exitCode = 1
    /\ hist.failed = {0} /\ 1 \in hist.written

\* The I/O of some chunk has failed (read error, write error, short write).
ChunkFailed == hist.failed # {} \/ hist.short # {}

\* C8 as stated: from the moment a chunk I/O fails, no new task is put on
\* the task queue.
C8_NoDispatchAfterFailure ==
    [][ChunkFailed => hist'.sent = hist.sent]_vars

\* C8 as amended: after a chunk I/O failure the process never exits with
\* status 0 and does exit with status 1, and from the exit on no task is
\* put on the task queue.  (Between the failure and the exit the sequencer
\* or the dispatch loop may still queue tasks.)
C8_FailureEndsDispatch ==
    /\ [](ChunkFailed => exitCode # 0)
    /\ ChunkFailed ~> (exitCode = 1)
    /\ [][~Running => (tasks' = tasks /\ hist'.sent = hist.sent)]_vars

\* C8 witness: a read run with one worker in which chunk 0 failed when at
\* most two tasks could have been queued, and a third was queued before the
\* exit with status 1.
C8_Witness ==
    /\ mode = "read" /\ exitCode = 1 /\ workers = 1
    /\ hist.failed = {0} /\ Len(hist.sent) = 3

\* C9: a write that reports fewer bytes than the payload with no error
\* puts the worker in the same abort position as an I/O error does; the
\* process then never exits with status 0 and does exit with status 1.
C9_ShortWriteAborts ==
    /\ [](mode = "write" =>
            \A k \in hist.short \cup hist.failed :
                Running => \E w \in Workers : wk[w].pc = "fail" /\ wk[w].task.index = k)
    /\ []((mode = "write" /\ hist.short # {}) => exitCode # 0)
    /\ (mode = "write" /\ hist.short # {}) ~> (exitCode = 1)

\* C9 witness: the only failure of the run is a short write of unit 1 with
\* no error, and the process has exited with status 1.
C9_Witness ==
    /\ mode = "write" /\ exitCode = 1 /\ ~stdinErr
    /\ hist.short = {1} /\ hist.failed = {}

\* C10 as stated: once the pipeline has signalled completion the counter
\* equals the total size.
C10_CounterIsTotalSize ==
    done => Counter = totalSize

\* C10 as amended: the counter and the value the ticker samples never
\* decrease, the sample never exceeds the counter, and once the pipeline
\* has signalled completion the counter equals the number of bytes
\* transferred: the bytes of the device written to stdout on the read path,
\* the length of the input stream on the write path.
C10_CounterIsBytesTransferred ==
    /\ [][/\ ticker'.line >= ticker.line
          /\ bytesRead' >= bytesRead
          /\ bytesWritten' >= bytesWritten]_vars
    /\ [](ticker.line <= Counter)
    /\ [](done => IF mode = "read"
                  THEN bytesRead = Len(stdout) /\ bytesRead = Len(dev)
                  ELSE bytesWritten = Len(hist.input))

\* C10 witness: a write run of a two-byte input on a three-byte device has
\* signalled completion; the ticker sampled the counter at 1 on the way.
C10_Witness ==
    /\ mode = "write" /\ done
    /\ totalSize = 3 /\ bytesWritten = 2 /\ ticker.line = 1

\* C11 as stated: once a pipeline runs, the byte counter never exceeds the
\* total size of the device (even when the input of a write run is longer
\* than the device), and it is never equal to the total size in a run that
\* fails.
C11_CounterWithinTotal ==
    ticker.pc # "off" =>
        /\ Counter <= totalSize
        /\ exitCode > 0 => Counter # totalSize

\* The worker count or the block size is not a positive integer.
InvalidFlags == workers <= 0 \/ blockSize <= 0

\* C12 as stated: an invocation whose worker count or block size is not
\* positive never exits with status 0.
C12_InvalidFlagsExitNonZero ==
    InvalidFlags => exitCode # 0

\* C13: when the mode is neither "read" nor "write" (the empty default
\* included) or the device path is empty, the only step the process takes
\* is the exit with status 1: the device is never opened, no worker and no
\* reporter is started, nothing is queued, read or written.
C13_UsageErrorExits ==
    /\ []((devicePath = "" \/ mode \notin {"read", "write"}) =>
            /\ pc \in {"main", "exited"}
            /\ pc = "exited" => exitCode = 1
            /\ \A w \in Workers : wk[w].pc = "off"
            /\ ticker.pc = "off"
            /\ totalSize = 0
            /\ hist.sent = <<>> /\ hist.taken = <<>>
            /\ stdout = <<>> /\ stdin = hist.input)
    /\ [][(devicePath = "" \/ mode \notin {"read", "write"}) => exitCode' = 1]_vars

\* C13 witness: the mode flag was left at its empty default, with a device
\* path and valid numbers; the process has exited with status 1 on the
\* invalid-mode message.
C13_Witness ==
    /\ mode = "" /\ devicePath # ""
    /\ exitCode = 1 /\ stderr.text = "Error: Invalid mode"

\* The next read of the input stream fails: the stream is broken and holds
\* less than a block.
InputFails == mode = "write" /\ pc = "loop" /\ stdinErr /\ Len(stdin) < blockSize

\* The dispatch loop has reported a failed read of the input stream.
InputFailed == stderr.text = "Error reading input"

\* C14: when a read of standard input fails with an error that is not the
\* end of the stream, no Write Unit is queued for that read (whatever it
\* had read before the error) nor after it, the process is at once exited
\* with status 1, and a run whose next read fails does exit with status 1.
C14_InputErrorAborts ==
    /\ [][(InputFails \/ InputFailed) =>
            (hist'.sent = hist.sent /\ Len(tasks') <= Len(tasks))]_vars
    /\ [](InputFailed => exitCode = 1)
    /\ InputFails ~> (exitCode = 1)

\* C14 witness: block size 2 and a broken input stream of three bytes: the
\* first unit was queued, the second read failed after one byte, nothing
\* was queued for it and the process exited with status 1.
C14_Witness ==
    /\ mode = "write" /\ exitCode = 1 /\ InputFailed
    /\ blockSize = 2 /\ Len(hist.input) = 3 /\ Len(hist.sent) = 1

\* C15: the step that leaves the probe sets totalSize to what the ioctl
\* answers when the ioctl succeeds, else to what Stat answers when Stat
\* succeeds, and exits with status 1 only when both fail; and when the
\* process has exited on a failed open or a failed probe, and as long as
\* the probe is not done, no worker and no reporter has been started, no
\* task was queued or taken, nothing was read from the input or written to
\* the output, and the device of a write run is untouched.
C15_SizeProbe ==
    /\ [][(pc = "probe" /\ pc' # "probe") =>
            IF probe.ioctl # NoSize
            THEN totalSize' = probe.ioctl /\ pc' = "loop" /\ exitCode' = -1
            ELSE IF probe.stat # NoSize
            THEN totalSize' = probe.stat /\ pc' = "loop" /\ exitCode' = -1
            ELSE exitCode' = 1 /\ stderr'.text = "Error stat'ing device"]_vars
    /\ []((\/ pc \in {"open", "probe"}
           \/ stderr.text \in {"Error opening device", "Error stat'ing device"}) =>
            /\ pc = "exited" => exitCode = 1
            /\ \A w \in Workers : wk[w].pc = "off"
            /\ ticker.pc = "off"
            /\ hist.sent = <<>> /\ hist.taken = <<>>
            /\ stdout = <<>> /\ stdin = hist.input
            /\ mode = "write" => \A i \in 1..Len(dev) : dev[i] = Blank)

\* C15 witness: a regular file of three bytes: the ioctl is refused, the
\* size comes from the file metadata and the pipeline runs with it.
C15_Witness ==
    /\ probe = RegularFile(3)
    /\ pc = "loop" /\ totalSize = 3

\* C16 as stated: when a pipeline whose reporter was started has
\* terminated, with success or with a failure, the reporter was signalled
\* and has emitted its final blank line (after which it emits nothing).
C16_ReporterShutdown ==
    (~Running /\ ticker.pc # "off") => (done /\ ticker.pc = "stopped")

\* The messages of the chunk-failure exits: lines 171, 77 and 81.
ChunkFailureTexts == {"Error in worker", "Error writing block", "Short write for block"}

\* C17 as stated: the message written before a chunk-failure exit carries
\* the index of the failing chunk, its offset, and the underlying cause
\* (for a short write, which has no error value, the text names the cause).
C17_FailureMessage ==
    stderr.text \in ChunkFailureTexts =>
        /\ "index" \in DOMAIN stderr
        /\ "offset" \in DOMAIN stderr
        /\ stderr.text # "Short write for block" => "cause" \in DOMAIN stderr

\* C18: the Write Units are queued with indices 0, 1, 2, ... in the order
\* the input is consumed, and every unit, the final shorter one included,
\* has offset = index * blockSize and carries the input bytes from that
\* offset on.
C18_WriteOffsets ==
    mode = "write" =>
        \A i \in 1..Len(hist.sent) :
            LET u == hist.sent[i]
            IN  /\ u.index = i - 1
                /\ u.offset = u.index * blockSize
                /\ u.data = SubSeq(hist.input, u.offset + 1, u.offset + Len(u.data))

\* C18 witness: an input of three bytes with block size 2: two units were
\* queued, the second the final shorter one at offset 2.
C18_Witness ==
    /\ mode = "write" /\ tasksClosed
    /\ blockSize = 2 /\ Len(hist.input) = 3
    /\ Len(hist.sent) = 2 /\ hist.sent[2].offset = 2 /\ Len(hist.sent[2].data) = 1

\* C19: on the write path no empty unit is ever queued and never more than
\* ceil(L / B) units, for an input of L bytes and block size B; the queue
\* is closed when the dispatch loop has ended; and once it is closed the
\* whole input was consumed, exactly ceil(L / B) units were queued, the
\* last of them with the L mod B remaining bytes when L mod B > 0 and with
\* B bytes otherwise, and nothing is queued any more.
C19_EndOfInput ==
    /\ [](mode = "write" =>
            LET L == Len(hist.input)
                B == blockSize
                n == Len(hist.sent)
            IN  /\ \A i \in 1..n : Len(hist.sent[i].data) > 0
                /\ n <= Ceil(L, B)
                /\ pc \in {"wait", "return"} => tasksClosed
                /\ tasksClosed =>
                      /\ stdin = <<>>
                      /\ n = Ceil(L, B)
                      /\ L % B > 0 => Len(hist.sent[n].data) = L % B
                      /\ (L % B = 0 /\ L > 0) => Len(hist.sent[n].data) = B)
    /\ [][(mode = "write" /\ tasksClosed) =>
            (tasksClosed' /\ hist'.sent = hist.sent /\ Len(tasks') <= Len(tasks))]_vars

\* C19 witness: an input of two bytes with block size 2 (L mod B = 0): the
\* queue was closed after one unit, and the run completed.
C19_Witness ==
    /\ mode = "write" /\ exitCode = 0 /\ tasksClosed
    /\ blockSize = 2 /\ Len(hist.input) = 2 /\ Len(hist.sent) = 1

\* C20: no Write Unit is longer than blockSize, and a unit shorter than
\* blockSize is the last unit queued, holds the last bytes of the input,
\* and was queued at the end of an input stream that ended cleanly; every
\* unit before the last has exactly blockSize bytes.
C20_UnitSizes ==
    mode = "write" =>
        LET n == Len(hist.sent)
        IN  \A i \in 1..n :
                LET u == hist.sent[i]
                IN  /\ Len(u.data) <= blockSize
                    /\ i < n => Len(u.data) = blockSize
                    /\ Len(u.data) < blockSize =>
                          /\ i = n
                          /\ stdin = <<>> /\ ~stdinErr
                          /\ u.offset + Len(u.data) = Len(hist.input)

\* C20 witness: an input of one byte with block size 2: the only unit is
\* the short one, and the run completed.
C20_Witness ==
    /\ mode = "write" /\ exitCode = 0
    /\ blockSize = 2 /\ Len(hist.input) = 1
    /\ Len(hist.sent) = 1 /\ Len(hist.sent[1].data) = 1

\* The number of device bytes a write run has written so far.
BytesOnDevice == Cardinality({i \in 1..Len(dev) : dev[i] # Blank})

\* C21 as stated: on the write path the byte counter is at every state at
\* most the number of bytes already written to the device (it is advanced
\* by the workers for what they wrote, never by the dispatch loop).
C21_CounterOwnedByWorkers ==
    mode = "write" => bytesWritten <= BytesOnDevice

\* The number of device bytes in the range of task t.
ChunkBytes(t) ==
    LET end == Min(t.offset + t.size, Len(dev))
    IN  IF end > t.offset THEN end - t.offset ELSE 0

RECURSIVE SumChunkBytes(_)
SumChunkBytes(ts) ==
    IF ts = <<>> THEN 0 ELSE ChunkBytes(Head(ts)) + SumChunkBytes(Tail(ts))

\* C22: at every state of the read path the byte counter equals the number
\* of bytes written to stdout, which is the total length of the chunks of
\* index below expected; the counter and stdout change only in a step of
\* the loop over results that takes a Result, and then by the same amount.
C22_ReadCounter ==
    /\ [](mode = "read" =>
            /\ bytesRead = Len(stdout)
            /\ expected <= Len(hist.sent)
            /\ bytesRead = SumChunkBytes(SubSeq(hist.sent, 1, expected)))
    /\ [][(mode = "read" /\ (bytesRead' # bytesRead \/ stdout' # stdout)) =>
            /\ pc = "loop" /\ results # <<>> /\ results' = Tail(results)
            /\ expected' > expected
            /\ bytesRead' - bytesRead = Len(stdout') - Len(stdout)]_vars

\* C22 witness: a device of three bytes read with block size 2: chunk 1
\* was held, then chunk 0 arrived and both were written; the counter is 3.
C22_Witness ==
    /\ mode = "read" /\ pc = "loop"
    /\ blockSize = 2 /\ hist.held /\ expected = 2 /\ bytesRead = 3

(***************************************************************************)
(* A read of a device of more chunks than twice the largest worker count   *)
(* of the base runs: MaxSize + 1 bytes read one byte at a time.            *)
(***************************************************************************)
InitReadLong ==
    /\ mode = "read"
    /\ devicePath = "/dev/xvda"
    /\ blockSize = 1
    /\ workers \in 1..MaxWorkers
    /\ devSize = MaxSize + 1
    /\ probe = BlockDevice(devSize)
    /\ pc = "open"
    /\ InitProcess
    /\ dev = Content(devSize)
    /\ stdin = <<>>
    /\ stdinErr = FALSE
    /\ hist = InitHist

SpecReadLong == InitReadLong /\ [][ReadPath \/ TickerDone]_vars

\* The chunks of index above k that a worker holds (being read, or read and
\* not yet sent), those waiting in the task queue, and those ever taken.
InHands(k) ==
    {w \in Workers : wk[w].pc \in {"io", "send"} /\ wk[w].task.index > k}

Queued(k) == {i \in 1..Len(tasks) : tasks[i].index > k}

TakenAbove(k) == {i \in 1..Len(hist.taken) : hist.taken[i] > k}

\* C23 as stated: when the run has ended on the failure of chunk k, at most
\* workers chunks of index above k have been handed to the workers.
C23_HandedOnFailure ==
    (mode = "read" /\ exitCode = 1 /\ stderr.text = "Error in worker") =>
        Cardinality(TakenAbove(stderr.index)) <= workers

\* C23 amended: at every state of a read run, for every failed chunk k, at
\* most workers chunks of index above k are in the workers' hands and at
\* most workers wait in the task queue.
C23_InFlightOnFailure ==
    mode = "read" =>
        \A k \in hist.failed :
            /\ Cardinality(InHands(k)) <= workers
            /\ Cardinality(Queued(k)) <= workers
            /\ Cardinality(InHands(k)) + Cardinality(Queued(k))
                   <= Len(hist.sent) - Len(hist.emitted)

\* C23 witness: two workers; the run ended on the failure of chunk 0 after
\* chunks 1, 2 and 3 had all been handed to a worker.
C23_Witness ==
    /\ mode = "read" /\ workers = 2
    /\ exitCode = 1 /\ stderr.text = "Error in worker" /\ stderr.index = 0
    /\ hist.failed = {0}
    /\ {1, 2, 3} \subseteq {hist.taken[i] : i \in 1..Len(hist.taken)}

\* The successful Read Results in existence: those a worker is about to
\* send and those in the results channel.
SuccessResults ==
    {wk[w].res : w \in {v \in Workers : wk[v].pc = "send" /\ wk[v].res.err = "nil"}}
    \cup {results[i] : i \in {j \in 1..Len(results) : results[j].err = "nil"}}

\* C24 as stated: on the read path no successful Result is empty: a read
\* that obtained zero bytes is reported as an error Result, so neither a
\* Result on its way to the loop nor a held chunk has zero bytes.
C24_ZeroByteReadRejected ==
    mode = "read" =>
        /\ \A r \in SuccessResults : Len(r.data) >= 1
        /\ \A i \in DOMAIN buffer : Len(buffer[i]) >= 1

\* The length requested for chunk i, and whether chunk i ends before the
\* end of the device as sized.
Requested(i) == hist.sent[i + 1].size

NonFinal(i) == hist.sent[i + 1].offset + hist.sent[i + 1].size < totalSize

\* C25 as stated: on the read path every successful Result for a chunk
\* other than the final one carries exactly the requested number of bytes.
C25_NonFinalResultFull ==
    mode = "read" =>
        \A r \in SuccessResults :
            NonFinal(r.index) => Len(r.data) = Requested(r.index)

\* C26: on the read path the tasks put on the queue have the indices
\* 0, 1, 2, ... in that order, one task per index, with strictly increasing
\* offsets, and never more than the N = ceil(totalSize / blockSize) chunks
\* of the device; the queue is closed only when all N have been queued,
\* and once it is closed it stays closed and nothing more is queued.
C26_SequencerOrderAndClose ==
    /\ [](mode = "read" =>
            /\ \A i \in 1..Len(hist.sent) : hist.sent[i].index = i - 1
            /\ \A i \in 1..Len(hist.sent) : \A j \in 1..Len(hist.sent) :
                   i < j => hist.sent[i].offset < hist.sent[j].offset
            /\ Started => Len(hist.sent) <= Ceil(totalSize, blockSize)
            /\ tasksClosed => Len(hist.sent) = Ceil(totalSize, blockSize))
    /\ [][mode = "read" =>
            /\ tasksClosed => (tasksClosed' /\ hist'.sent = hist.sent)
            /\ hist'.sent # hist.sent =>
                   /\ Len(hist'.sent) = Len(hist.sent) + 1
                   /\ SubSeq(hist'.sent, 1, Len(hist.sent)) = hist.sent
                   /\ tasks' = Append(tasks, hist'.sent[Len(hist'.sent)])]_vars

\* C26 witness: a device of three bytes read with block size 1: the queue
\* is closed after the chunks 0, 1, 2 at offsets 0, 1, 2 were queued.
C26_Witness ==
    /\ mode = "read" /\ tasksClosed /\ totalSize = 3 /\ blockSize = 1
    /\ Len(hist.sent) = 3 /\ hist.sent[3].index = 2 /\ hist.sent[3].offset = 2

\* The indices of the tasks queued so far, of those taken by a worker, of
\* those waiting in the queue, and the workers at a given point of their
\* loop.
SentIndices == {hist.sent[i].index : i \in 1..Len(hist.sent)}

TakenIndices == {hist.taken[i] : i \in 1..Len(hist.taken)}

QueuedIndices == {tasks[i].index : i \in 1..Len(tasks)}

WorkersAt(p) == {w \in Workers : wk[w].pc = p}

\* The indices of the Read Results produced so far and not lost: with a
\* worker that is about to send, in the results channel, in the holding
\* map, or written to stdout.
ResultIndices ==
    {wk[w].res.index : w \in WorkersAt("send")}
    \cup {results[i].index : i \in 1..Len(results)}
    \cup DOMAIN buffer
    \cup {hist.emitted[i] : i \in 1..Len(hist.emitted)}

\* C27: every task put on the queue is either still there or was taken
\* once: no index is taken twice and no two workers hold the same task.
\* While a read run goes on, every task taken and no longer being read has
\* exactly one Result; in a write run every task taken is being written,
\* has failed, or was written.  A run that ends with status 0 has left no
\* task in the queue or in a worker's hands: every chunk was written to
\* stdout, every unit to the device.
C27_ExactlyOnce ==
    /\ \A i \in 1..Len(hist.taken) : \A j \in 1..Len(hist.taken) :
           i # j => hist.taken[i] # hist.taken[j]
    /\ Len(hist.taken) + Len(tasks) = Len(hist.sent)
    /\ TakenIndices \cup QueuedIndices = SentIndices
    /\ \A w \in Workers : \A v \in Workers :
           (w # v /\ wk[w].task # NoTask /\ wk[v].task # NoTask) =>
               wk[w].task.index # wk[v].task.index
    /\ (mode = "read" /\ Running) =>
           /\ ResultIndices =
                  TakenIndices \ {wk[w].task.index : w \in WorkersAt("io")}
           /\ Cardinality(WorkersAt("send")) + Len(results)
                  + Cardinality(DOMAIN buffer) + Len(hist.emitted)
                  = Len(hist.taken) - Cardinality(WorkersAt("io"))
    /\ mode = "write" =>
           /\ TakenIndices = {wk[w].task.index : w \in WorkersAt("io") \cup WorkersAt("fail")}
                                \cup hist.written
           /\ Len(hist.taken) = Cardinality(WorkersAt("io")) + Cardinality(WorkersAt("fail"))
                                    + Cardinality(hist.written)
    /\ exitCode = 0 =>
           /\ tasks = <<>> /\ \A w \in Workers : wk[w].task = NoTask
           /\ mode = "read" => Len(hist.emitted) = Len(hist.sent)
           /\ mode = "write" => hist.written = SentIndices

\* C27 witness: a read run with two workers ended with status 0 after
\* three chunks, at least one of which was held for an earlier one.
C27_Witness ==
    /\ mode = "read" /\ exitCode = 0 /\ workers = 2
    /\ Len(hist.sent) = 3 /\ Len(hist.taken) = 3 /\ hist.held

\* The tasks in flight: one slot per entry of the task queue and one per
\* worker that holds a task; the task in a slot and the device bytes
\* (numbered from 1) that it addresses.
Slots ==
    ({"queue"} \X (1..Len(tasks)))
    \cup ({"worker"} \X {w \in Workers : wk[w].task # NoTask})

TaskAt(s) == IF s[1] = "queue" THEN tasks[s[2]] ELSE wk[s[2]].task

Range(t) ==
    (t.offset + 1)..(t.offset + IF mode = "read" THEN t.size ELSE Len(t.data))

\* C28: at every state of either pipeline the byte ranges of any two tasks
\* that are in the queue or in a worker's hands are disjoint.
C28_DisjointRanges ==
    \A s \in Slots : \A t \in Slots :
        s # t => Range(TaskAt(s)) \cap Range(TaskAt(t)) = {}

\* C28 witness: a write run in which both workers are writing a unit while
\* a third unit waits in the queue.
C28_Witness ==
    /\ mode = "write" /\ workers = 2
    /\ wk[1].pc = "io" /\ wk[2].pc = "io" /\ Len(tasks) >= 1
    /\ \A s \in Slots : Range(TaskAt(s)) # {}

\* C29: the task queue never holds more than workers tasks, and in a step
\* taken while it is full nothing is put on it: it stays as it is or loses
\* its head to a worker.
C29_Backpressure ==
    /\ [](Len(tasks) <= workers)
    /\ [][Len(tasks) >= workers =>
            /\ hist'.sent = hist.sent
            /\ tasks' = tasks \/ tasks' = Tail(tasks)]_vars

\* C29 witness: a write run in which every worker is writing, the queue is
\* full and there is more input to dispatch.
C29_Witness ==
    /\ mode = "write" /\ pc = "loop"
    /\ Len(tasks) = workers /\ Len(stdin) >= 1
    /\ \A w \in Workers : wk[w].pc = "io"

\* C30: the workers take the tasks in the order they were queued: the
\* i-th task taken is the i-th task queued, so the indices in the order
\* taken are strictly ascending.
C30_FifoDispatch ==
    /\ Len(hist.taken) <= Len(hist.sent)
    /\ \A i \in 1..Len(hist.taken) : hist.taken[i] = hist.sent[i].index
    /\ \A i \in 1..Len(hist.taken) : \A j \in 1..Len(hist.taken) :
           i < j => hist.taken[i] < hist.taken[j]

\* C30 witness: a read run with two workers in which three tasks were
\* taken while two tasks were waiting in the queue at some point: here the
\* third was taken while the first is still being read.
C30_Witness ==
    /\ mode = "read" /\ workers = 2
    /\ hist.taken = <<0, 1, 2>>
    /\ \E w \in Workers : wk[w].pc = "io" /\ wk[w].task.index = 0

\* The read pipeline has come to its end: the task queue is closed and
\* empty, every worker has returned, the results channel is closed and
\* drained, all N = ceil(totalSize / blockSize) chunks were written to
\* stdout in turn, and completion was signalled to the ticker.
ReadTerminated ==
    /\ tasksClosed /\ tasks = <<>>
    /\ \A w \in Workers : wk[w].pc = "done"
    /\ resultsClosed /\ results = <<>>
    /\ expected = Ceil(totalSize, blockSize)
    /\ Len(hist.emitted) = Ceil(totalSize, blockSize)
    /\ done

\* C31: under fair scheduling a read pipeline that has started and meets
\* no read error comes to its end, whatever the interleaving and also for
\* a device of size 0; and completion is never signalled before the chunk
\* of the final index was written and all queues were closed and drained.
C31_ReadTerminates ==
    /\ (mode = "read" /\ pc = "loop") ~> (hist.failed # {} \/ ReadTerminated)
    /\ [](mode = "read" /\ done => ReadTerminated)

\* C31 witness: a read of three chunks by two workers, one chunk held for
\* an earlier one, has come to its end with no read error.
C31_Witness ==
    /\ mode = "read" /\ workers = 2 /\ hist.failed = {} /\ hist.held
    /\ ReadTerminated /\ Len(hist.emitted) = 3 /\ exitCode = 0

(***************************************************************************)
(* The reporter at work: the runs of either pipeline, ticks included, on a *)
(* block device that holds all its bytes and with an input stream that     *)
(* ends cleanly.  (The reporter starts after the probe and reads nothing   *)
(* but the counter.)                                                       *)
(***************************************************************************)
InitReporter ==
    /\ devicePath = "/dev/xvda"
    /\ mode \in {"read", "write"}
    /\ blockSize \in 1..MaxBlockSize
    /\ workers \in 1..MaxWorkers
    /\ devSize \in 0..MaxSize
    /\ probe = BlockDevice(devSize)
    /\ pc = "open"
    /\ InitProcess
    /\ stdinErr = FALSE
    /\ IF mode = "read"
       THEN /\ dev = Content(devSize)
            /\ stdin = <<>>
            /\ hist = InitHist
       ELSE /\ dev = [i \in 1..devSize |-> Blank]
            /\ \E n \in 0..MaxInput : stdin = Content(n)
            /\ hist = [InitHist EXCEPT !.input = stdin]

SpecReporter == InitReporter /\ [][Next]_vars

\* Every variable but the reporter's own.
dataVars ==
    <<devicePath, mode, blockSize, workers, devSize, probe, dev, stdin, stdinErr,
      stdoutRoom, pc, totalSize, tasks, tasksClosed, results, resultsClosed, offset, index,
      wk, expected, buffer, stdout, bytesRead, bytesWritten, done, exitCode,
      stderr, hist>>

\* C32: a step of the running progress reporter changes nothing but the
\* reporter: the counters, the queues, the holding map, the expected index,
\* stdout and the device stay as they are, and what it prints is the
\* counter; and the step leaves every step of the data path enabled or
\* disabled as it was.
C32_ReporterFrame ==
    [][(ticker.pc = "run" /\ ticker' # ticker) =>
          /\ UNCHANGED dataVars
          /\ ticker'.line \in {ticker.line, Counter}
          /\ \A w \in Workers :
                 /\ (ENABLED RecvTask(w))' = ENABLED RecvTask(w)
                 /\ (ENABLED WorkerReturn(w))' = ENABLED WorkerReturn(w)
                 /\ (ENABLED DoReadAt(w))' = ENABLED DoReadAt(w)
                 /\ (ENABLED SendResult(w))' = ENABLED SendResult(w)
                 /\ (ENABLED DoWriteAt(w))' = ENABLED DoWriteAt(w)
                 /\ (ENABLED WorkerExit(w))' = ENABLED WorkerExit(w)
          /\ (ENABLED GenTask)' = ENABLED GenTask
          /\ (ENABLED GenClose)' = ENABLED GenClose
          /\ (ENABLED CloseResults)' = ENABLED CloseResults
          /\ (ENABLED HandleResult)' = ENABLED HandleResult
          /\ (ENABLED ReadLoopEnd)' = ENABLED ReadLoopEnd
          /\ (ENABLED Dispatch)' = ENABLED Dispatch
          /\ (ENABLED WaitWorkers)' = ENABLED WaitWorkers
          /\ (ENABLED MainReturn)' = ENABLED MainReturn]_vars

\* C32 witness: the reporter has printed a counter of two bytes or more
\* while the pipeline was at work and a worker is busy.
C32_Witness ==
    /\ Running /\ ticker.pc = "run" /\ ticker.line >= 2
    /\ \E w \in Workers : wk[w].pc = "io"

\* C33: on the read path the holding map changes only in a step of the
\* loop over results that takes a Result, a step that leaves the workers
\* as they are; at every state it holds only indices above expected, none
\* of them written to stdout yet; and when the run has ended with status 0
\* it is empty and expected is N = ceil(totalSize / blockSize).
C33_HoldingMap ==
    /\ [](mode = "read" =>
            /\ \A i \in DOMAIN buffer :
                   /\ i > expected
                   /\ \A j \in 1..Len(hist.emitted) : hist.emitted[j] # i
            /\ exitCode = 0 =>
                   buffer = EmptyBuffer /\ expected = Ceil(totalSize, blockSize))
    /\ [][(mode = "read" /\ buffer' # buffer) =>
            /\ pc = "loop" /\ results # <<>> /\ results' = Tail(results)
            /\ wk' = wk]_vars

\* C33 witness: three chunks; chunks 1 and 2 were held while chunk 0 was
\* read, then drained; the run ended with status 0 and an empty map.
C33_Witness ==
    /\ mode = "read" /\ exitCode = 0 /\ hist.held
    /\ buffer = EmptyBuffer /\ expected = 3 /\ blockSize = 1

(***************************************************************************)
(* A read whose standard output may stop taking bytes: the device holds    *)
(* all its bytes, standard output takes stdoutRoom of them.                *)
(***************************************************************************)
InitReadSink ==
    /\ mode = "read"
    /\ devicePath = "/dev/xvda"
    /\ blockSize \in 1..MaxBlockSize
    /\ workers \in 1..MaxWorkers
    /\ devSize \in 0..MaxSize
    /\ probe = BlockDevice(devSize)
    /\ pc = "open"
    /\ InitPipeline
    /\ stdoutRoom \in {NoLimit} \cup 0..MaxSize
    /\ dev = Content(devSize)
    /\ stdin = <<>>
    /\ stdinErr = FALSE
    /\ hist = InitHist

SpecReadSink == InitReadSink /\ [][ReadPath \/ TickerDone]_vars

\* C34 as stated: a read run ends with status 0 only if standard output
\* took every byte of the device, and the counter never exceeds the number
\* of bytes standard output took.
C34_OutputFailure ==
    mode = "read" =>
        /\ exitCode = 0 => Len(stdout) = totalSize
        /\ bytesRead <= Len(stdout)

\* C35: on the write path, when completion has been signalled, when
\* writeBlockDevice has returned and when the process has exited with
\* status 0, the task queue is closed and empty, every worker has returned
\* with no unit in hand, and every unit submitted was written in full.
C35_WriteCompletionOrder ==
    (mode = "write" /\ (done \/ pc = "return" \/ exitCode = 0)) =>
        /\ tasksClosed /\ tasks = <<>>
        /\ \A w \in Workers : wk[w].pc = "done" /\ wk[w].task = NoTask
        /\ hist.written = SentIndices
        /\ Len(hist.taken) = Len(hist.sent)

\* C35 witness: a write run of three units by two workers has returned
\* and exited with status 0.
C35_Witness ==
    /\ mode = "write" /\ workers = 2 /\ exitCode = 0 /\ done
    /\ hist.written = {0, 1, 2}

\* The number of input bytes in the units ts.
RECURSIVE SumData(_)
SumData(ts) == IF ts = <<>> THEN 0 ELSE Len(Head(ts).data) + SumData(Tail(ts))

\* The write pipeline has come to its end: the whole input was submitted,
\* the task queue is closed and empty, every worker has returned, every
\* unit was written, and completion was signalled to the ticker.
WriteTerminated ==
    /\ stdin = <<>> /\ SumData(hist.sent) = Len(hist.input)
    /\ tasksClosed /\ tasks = <<>>
    /\ \A w \in Workers : wk[w].pc = "done"
    /\ hist.written = SentIndices
    /\ done

\* C36: under fair scheduling a write pipeline that has entered its
\* dispatch loop and meets no I/O error (failed or short write, failed read
\* of the input) comes to its end, whatever the interleaving of the
\* dispatch loop and the workers.
C36_WriteTerminates ==
    (mode = "write" /\ pc = "loop") ~>
        (ChunkFailed \/ InputFailed \/ WriteTerminated)

\* C36 witness: an input of three bytes written in units of two bytes (the
\* last one short) by two workers with no error; the pipeline has come to
\* its end.
C36_Witness ==
    /\ mode = "write" /\ workers = 2 /\ blockSize = 2
    /\ Len(hist.input) = 3 /\ Len(hist.sent) = 2
    /\ ~ChunkFailed /\ ~InputFailed /\ WriteTerminated

\* C37: on the read path the results channel is closed only when every
\* worker has returned, the task queue being closed and empty; once it is
\* closed it stays closed and nothing is sent on it; and the loop over
\* results ends only on the closed and empty channel, having received one
\* Result for every task taken.
C37_ResultsClose ==
    /\ [](mode = "read" /\ resultsClosed =>
            /\ \A w \in Workers : wk[w].pc = "done"
            /\ tasksClosed /\ tasks = <<>>)
    /\ [][mode = "read" /\ resultsClosed =>
            /\ resultsClosed'
            /\ results' = results \/ results' = Tail(results)]_vars
    /\ [](mode = "read" /\ pc = "return" =>
            /\ resultsClosed /\ results = <<>>
            /\ Len(hist.emitted) + Cardinality(DOMAIN buffer) = Len(hist.taken)
            /\ Len(hist.taken) = Len(hist.sent))

\* C37 witness: the results channel was closed with two Results still in
\* it, which the loop has yet to receive.
C37_Witness ==
    /\ mode = "read" /\ Running /\ pc = "loop"
    /\ resultsClosed /\ Len(results) = 2

====
